---------------------------- MODULE Spec2Model ----------------------------
(***************************************************************************)
(* Supply-chain chaincode: OrderContract (orders in the private collection *)
(* 'OrderCollection') and ProductContract (products in the public world    *)
(* state), as written in src/lib/order-contract.js, and the second         *)
(* ProductContract of src/unnamed/part_000, whose matchOrder has neither   *)
(* the wholesaler check nor the status check.                              *)
(*                                                                         *)
(* One step of the model is one invocation of one contract function: the   *)
(* handler runs to completion against the stub and either returns a value  *)
(* or throws.  `last` records that invocation: its name, the invoker's MSP *)
(* id, its keys and arguments, whether it returned or threw, the value or  *)
(* the error message, the stub calls it made in order, the event it set,   *)
(* and the fields it assigned on the object it wrote.                      *)
(***************************************************************************)
EXTENDS Integers, Sequences, FiniteSets, TLC

\* Largest quantity a caller supplies (as a decimal digit).
MaxQuantity == 2
\* Decimal places kept of a parsed floating-point number.
FracDigits == 1
\* The latest next() call of an iterator that the peer may reject.
MaxFailAt == 3
\* The most matches counted for one order.
MaxMatches == 2

VARIABLES
    variant,    \* "A": ProductContract of src/lib/order-contract.js; "B": of src/unnamed/part_000
    products,   \* world state: productId -> stored buffer
    orders,     \* private collection 'OrderCollection': orderId -> stored buffer
    last,       \* the invocation that made the last step
    had,        \* recorded productId -> the statuses it has had since its creation
    matches     \* recorded orderId -> the matches that assigned a product to it since its creation

vars == <<variant, products, orders, last, had, matches>>

---------------------------------------------------------------------------
\* Identities, keys and argument values the callers use.

MSPs == {"manufacturerMSP", "wholesalerMSP", "distributerMSP", "marketMSP"}

\* Spec's callers name one product and one order; SpecOrders' callers name
\* a second order.
ProductIds == {"p1"}
OrderIds == {"o1"}
TwoOrderIds == {"o1", "o2"}
TwoProductIds == {"p1", "p2"}
NoKey == "-"

Types == {"wheat", "rice"}
HarvestDates == {"2024-01-01"}
Origins == {"farm"}
ProducerNames == {"P1"}
WholesalerNames == {"W1"}
DistributerNames == {"D1"}
OwnerNames == {"O1"}
MarketNames == {"M1"}
SalePrices == {"10"}

---------------------------------------------------------------------------
\* A text that is parsed is a sequence of one-character strings; a message
\* or a status is the sequence of its literal parts and interpolated values.
\* Numbers are JavaScript numbers with FracDigits decimal places, NaN apart.

DigitChars == <<"0", "1", "2", "3", "4", "5", "6", "7", "8", "9">>

IsDigit(c) == \E i \in 1..Len(DigitChars) : DigitChars[i] = c

DigitVal(c) == (CHOOSE i \in 1..Len(DigitChars) : DigitChars[i] = c) - 1

Scale == 10 ^ FracDigits

NaN == [t |-> "NaN"]
Num(k) == [t |-> "number", v |-> k]      \* the number k / Scale
JsonNull == [t |-> "null"]
Str(s) == [t |-> "string", s |-> s]

IsWhiteSpace(c) == c = " "

\* Index of the first character of s at or after i that is not white space.
RECURSIVE SkipWhiteSpace(_, _)
SkipWhiteSpace(s, i) ==
    IF i <= Len(s) /\ IsWhiteSpace(s[i]) THEN SkipWhiteSpace(s, i + 1) ELSE i

\* Index after the run of digits of s that starts at i.
RECURSIVE DigitsEnd(_, _)
DigitsEnd(s, i) ==
    IF i <= Len(s) /\ IsDigit(s[i]) THEN DigitsEnd(s, i + 1) ELSE i

\* The natural number written by the digits s[i..j-1] (0 when there are none).
RECURSIVE DigitsValue(_, _, _)
DigitsValue(s, i, j) ==
    IF j <= i THEN 0 ELSE 10 * DigitsValue(s, i, j - 1) + DigitVal(s[j - 1])

\* The first FracDigits decimal places written by the digits s[i..j-1].
RECURSIVE FractionValue(_, _, _, _)
FractionValue(s, i, j, places) ==
    IF places = 0 THEN 0
    ELSE (IF i < j THEN DigitVal(s[i]) ELSE 0) * (10 ^ (places - 1))
         + FractionValue(s, i + 1, j, places - 1)

SignEnd(s, i) == IF i <= Len(s) /\ s[i] \in {"+", "-"} THEN i + 1 ELSE i
SignOf(s, i) == IF i <= Len(s) /\ s[i] = "-" THEN -1 ELSE 1

\* parseInt(text) with no radix: leading white space, an optional sign, then
\* the longest run of decimal digits; NaN when that run is empty.  What
\* follows the digits is ignored.
parseInt(s) ==
    LET i == SkipWhiteSpace(s, 1)
        j == SignEnd(s, i)
        k == DigitsEnd(s, j)
    IN  IF k = j THEN NaN
        ELSE Num(SignOf(s, i) * DigitsValue(s, j, k) * Scale)

\* parseFloat(text): leading white space, an optional sign, digits, an
\* optional point and digits; NaN when there is no digit at all.  What
\* follows is ignored.
parseFloat(s) ==
    LET i == SkipWhiteSpace(s, 1)
        j == SignEnd(s, i)
        k == DigitsEnd(s, j)
        hasPoint == k <= Len(s) /\ s[k] = "."
        m == IF hasPoint THEN DigitsEnd(s, k + 1) ELSE k
        nDigits == (k - j) + (IF hasPoint THEN m - (k + 1) ELSE 0)
    IN  IF nDigits = 0 THEN NaN
        ELSE Num(SignOf(s, i)
                 * (DigitsValue(s, j, k) * Scale
                    + (IF hasPoint THEN FractionValue(s, k + 1, m, FracDigits) ELSE 0)))

\* Number(text), the conversion a comparison applies to a string operand: the
\* whole text, white space trimmed, must be a decimal literal; the empty
\* text is 0.
StringToNumber(s) ==
    LET i == SkipWhiteSpace(s, 1)
        j == SignEnd(s, i)
        k == DigitsEnd(s, j)
        hasPoint == k <= Len(s) /\ s[k] = "."
        m == IF hasPoint THEN DigitsEnd(s, k + 1) ELSE k
        e == SkipWhiteSpace(s, m)
    IN  IF i > Len(s) THEN Num(0)
        ELSE IF e <= Len(s) THEN NaN
        ELSE parseFloat(s)

\* JSON.parse(JSON.stringify(x)) of a field value: NaN is written as null.
JsonRoundTrip(x) == IF x = NaN THEN JsonNull ELSE x

\* ToNumber of a value read back from a stored record.
ToNumber(x) ==
    CASE x.t = "number" -> x
      [] x.t = "null" -> Num(0)
      [] x.t = "string" -> StringToNumber(x.s)
      [] OTHER -> NaN

\* a <= b of JavaScript for operands that are not both strings.
JsLessEq(a, b) ==
    LET x == ToNumber(a)
        y == ToNumber(b)
    IN  x # NaN /\ y # NaN /\ x.v <= y.v

\* s === prefix
equals(s, prefix) == s = prefix

\* status.startsWith(prefix)
startsWith(s, prefix) ==
    Len(s) >= Len(prefix) /\ SubSeq(s, 1, Len(prefix)) = prefix

---------------------------------------------------------------------------
\* The stub: the two partitions, the transient map, the event of the
\* transaction, and the record of the calls made.

EmptyBuffer == [length |-> 0]
NoEvent == [name |-> "none"]
Undefined == <<"undefined">>

TransientFields == {"type", "quantity", "price", "distributerName"}
NoTransient == [f \in {} |-> <<>>]

\* The invocation's context: ctx.clientIdentity and ctx.stub.  calls lists
\* the stub calls made so far; assigned names the fields the handler set on
\* the object it wrote.
Context(mspid, transient) ==
    [mspid |-> mspid, transient |-> transient,
     products |-> products, orders |-> orders,
     calls |-> <<>>, event |-> NoEvent, assigned |-> {}]

Stub(w, call) == [w EXCEPT !.calls = Append(@, call)]

Return(w, v) == [w |-> w, outcome |-> "return", value |-> v]
Throw(w, message) == [w |-> w, outcome |-> "throw", value |-> message]

\* An object in the handler's memory: its fields, and which of them the
\* handler has assigned.  A literal assigns all of its fields; an object
\* read back by JSON.parse has none assigned yet.
Literal(record) == [rec |-> record, assigned |-> DOMAIN record]
Parse(buffer) == [rec |-> buffer, assigned |-> {}]

\* object.field = value
SetField(object, field, value) ==
    [rec |-> [f \in DOMAIN object.rec \cup {field} |->
                 IF f = field THEN value ELSE object.rec[f]],
     assigned |-> object.assigned \cup {field}]

\* Buffer.from(JSON.stringify(object)): every field value as JSON writes it.
Stringify(object) == [f \in DOMAIN object.rec |-> JsonRoundTrip(object.rec[f])]

\* The put calls take the object and write its JSON text.
putState(w, key, object) ==
    [Stub(w, "putState") EXCEPT !.products[key] = Stringify(object),
                                !.assigned = object.assigned]
\* A deleteState that leaves the key as it is.
deleteStateKeeping(w, key) == Stub(w, "deleteState")

deleteState(w, key) ==
    [Stub(w, "deleteState") EXCEPT !.products[key] = EmptyBuffer]
putPrivateData(w, key, object) ==
    [Stub(w, "putPrivateData") EXCEPT !.orders[key] = Stringify(object),
                                      !.assigned = object.assigned]
deletePrivateData(w, key) ==
    [Stub(w, "deletePrivateData") EXCEPT !.orders[key] = EmptyBuffer]
setEvent(w, name, payload) ==
    [Stub(w, "setEvent") EXCEPT !.event = [name |-> name, payload |-> payload]]

---------------------------------------------------------------------------
\* OrderContract

DeniedOrder(mspid) ==
    <<"Organization with MSP ID", mspid, "cannot perform this action">>

OrderMissing(orderId) == <<"The order", orderId, "does not exist">>

orderExists(w, orderId) ==
    Return(Stub(w, "getPrivateDataHash"), w.orders[orderId] # EmptyBuffer)

\* A createOrder that does not ask whether the key is live.
createOrderOverwriting(w, orderId) ==
    LET w1 == Stub(w, "getMSPID") IN
    IF w.mspid = "distributerMSP" THEN
        LET w2 == Stub(w1, "getTransient") IN
        IF ~ (TransientFields \subseteq DOMAIN w.transient) THEN
            Throw(w2, <<"Required fields are missing in transient data">>)
        ELSE
            Return(putPrivateData(w2, orderId,
                       Literal([type |-> Str(w.transient["type"]),
                                quantity |-> parseInt(w.transient["quantity"]),
                                price |-> parseFloat(w.transient["price"]),
                                distributerName |-> Str(w.transient["distributerName"]),
                                assetType |-> Str("order")])),
                   Undefined)
    ELSE
        Return(w1, DeniedOrder(w.mspid))

\* A createOrder that writes the record before it looks at the transient map.
createOrderWritingFirst(w, orderId) ==
    LET w1 == Stub(w, "getMSPID") IN
    IF w.mspid = "distributerMSP" THEN
        LET exists == orderExists(w1, orderId) IN
        IF exists.value THEN
            Throw(exists.w, <<"The order", orderId, "already exists">>)
        ELSE
            LET w2 == putPrivateData(Stub(exists.w, "getTransient"), orderId,
                                     Literal([assetType |-> Str("order")]))
            IN  IF ~ (TransientFields \subseteq DOMAIN w.transient) THEN
                    Throw(w2, <<"Required fields are missing in transient data">>)
                ELSE Return(w2, Undefined)
    ELSE
        Return(w1, DeniedOrder(w.mspid))

createOrder(w, orderId) ==
    LET w1 == Stub(w, "getMSPID") IN
    IF w.mspid = "distributerMSP" THEN
        LET exists == orderExists(w1, orderId) IN
        IF exists.value THEN
            Throw(exists.w, <<"The order", orderId, "already exists">>)
        ELSE
            LET w2 == Stub(exists.w, "getTransient")
                transientData == w.transient
            IN  IF ~ (TransientFields \subseteq DOMAIN transientData) THEN
                    Throw(w2, <<"Required fields are missing in transient data">>)
                ELSE
                    LET OrderAsset ==
                            Literal([type |-> Str(transientData["type"]),
                                     quantity |-> parseInt(transientData["quantity"]),
                                     price |-> parseFloat(transientData["price"]),
                                     distributerName |-> Str(transientData["distributerName"]),
                                     assetType |-> Str("order")])
                    IN  Return(putPrivateData(w2, orderId, OrderAsset), Undefined)
    ELSE
        Return(w1, DeniedOrder(w.mspid))

readOrder(w, orderId) ==
    LET exists == orderExists(w, orderId) IN
    IF ~ exists.value THEN
        Throw(exists.w, OrderMissing(orderId))
    ELSE
        Return(Stub(exists.w, "getPrivateData"), Parse(w.orders[orderId]))

\* A deleteOrder that does not ask who invokes it.
deleteOrderByAnyone(w, orderId) ==
    LET exists == orderExists(Stub(w, "getMSPID"), orderId) IN
    IF ~ exists.value THEN Throw(exists.w, OrderMissing(orderId))
    ELSE Return(deletePrivateData(exists.w, orderId), Undefined)

deleteOrder(w, orderId) ==
    LET w1 == Stub(w, "getMSPID") IN
    IF w.mspid = "distributerMSP" THEN
        LET exists == orderExists(w1, orderId) IN
        IF ~ exists.value THEN
            Throw(exists.w, OrderMissing(orderId))
        ELSE
            Return(deletePrivateData(exists.w, orderId), Undefined)
    ELSE
        Return(w1, DeniedOrder(w.mspid))

---------------------------------------------------------------------------
\* ProductContract

DeniedProduct(mspID) ==
    <<"User under the following MSP:", mspID, "cannot perform this action">>

DeniedMatch(mspID) ==
    <<"Organization with MSP ID", mspID, "cannot perform this action.">>
DeniedAssign(mspID) ==
    <<"User under following MSP:", mspID, "cannot able to perform this action">>
DeniedSale(mspID) ==
    <<"User under MSP:", mspID,
      "is not authorized to complete the product sale at the market.">>

ProductMissing(productId) == <<"The product", productId, "does not exist">>

Mismatch == <<"Order does not match the product specifications">>

Harvested == Str(<<"Harvested">>)
TransferredToWholesaler == Str(<<"Transferred to Wholesaler">>)
AssignedToOrder == Str(<<"Assigned to", "Order">>)
AssignedToMarket(ownerName, marketName) ==
    Str(<<"Assigned to", ownerName, "for the market", marketName>>)
FinalizedForMarketSale == Str(<<"Finalized for Market Sale">>)

\* A productExists that finds no key live.
productNeverExists(w, productId) == Return(Stub(w, "getState"), FALSE)

productExists(w, productId) ==
    Return(Stub(w, "getState"), w.products[productId] # EmptyBuffer)

\* A createProduct that announces the product before asking who calls.
createProductAnnouncingFirst(w, productId, type, quantity, harvestDate, origin, producerName) ==
    LET w0 == setEvent(w, "addProductEvent",
                       [Type |-> "Product creation", ProductType |-> Str(type)])
        w1 == Stub(w0, "getMSPID")
    IN
    IF w.mspid = "manufacturerMSP" THEN
        LET exists == productExists(w1, productId) IN
        IF exists.value THEN
            Throw(exists.w, <<"The product", productId, "already exists">>)
        ELSE
            LET product ==
                    Literal([type |-> Str(type),
                             quantity |-> Str(quantity),
                             harvestDate |-> Str(harvestDate),
                             origin |-> Str(origin),
                             status |-> Harvested,
                             ownedBy |-> Str(producerName),
                             assetType |-> Str("product")])
            IN  Return(putState(exists.w, productId, product), Undefined)
    ELSE
        Return(w1, DeniedProduct(w.mspid))

\* A createProduct that records no owner.
createProductUnowned(w, productId, type, quantity, harvestDate, origin, producerName) ==
    LET w1 == Stub(w, "getMSPID") IN
    IF w.mspid = "manufacturerMSP" THEN
        LET exists == productExists(w1, productId) IN
        IF exists.value THEN
            Throw(exists.w, <<"The product", productId, "already exists">>)
        ELSE
            LET product ==
                    Literal([type |-> Str(type),
                             quantity |-> Str(quantity),
                             harvestDate |-> Str(harvestDate),
                             origin |-> Str(origin),
                             status |-> Harvested,
                             assetType |-> Str("product")])
                w2 == putState(exists.w, productId, product)
            IN  Return(setEvent(w2, "addProductEvent",
                                [Type |-> "Product creation", ProductType |-> Str(type)]),
                       Undefined)
    ELSE
        Return(w1, DeniedProduct(w.mspid))

createProduct(w, productId, type, quantity, harvestDate, origin, producerName) ==
    LET w1 == Stub(w, "getMSPID") IN
    IF w.mspid = "manufacturerMSP" THEN
        LET exists == productExists(w1, productId) IN
        IF exists.value THEN
            Throw(exists.w, <<"The product", productId, "already exists">>)
        ELSE
            LET product ==
                    Literal([type |-> Str(type),
                             quantity |-> Str(quantity),
                             harvestDate |-> Str(harvestDate),
                             origin |-> Str(origin),
                             status |-> Harvested,
                             ownedBy |-> Str(producerName),
                             assetType |-> Str("product")])
                w2 == putState(exists.w, productId, product)
            IN  Return(setEvent(w2, "addProductEvent",
                                [Type |-> "Product creation", ProductType |-> Str(type)]),
                       Undefined)
    ELSE
        Return(w1, DeniedProduct(w.mspid))

readProduct(w, productId) ==
    LET exists == productExists(w, productId) IN
    IF ~ exists.value THEN
        Throw(exists.w, ProductMissing(productId))
    ELSE
        Return(Stub(exists.w, "getState"), Parse(w.products[productId]))

deleteProduct(w, productId) ==
    LET w1 == Stub(w, "getMSPID") IN
    IF w.mspid = "manufacturerMSP" THEN
        LET exists == productExists(w1, productId) IN
        IF ~ exists.value THEN
            Throw(exists.w, ProductMissing(productId))
        ELSE
            Return(deleteState(exists.w, productId), Undefined)
    ELSE
        Return(w1, DeniedProduct(w.mspid))

\* A transferToWholesaler that refuses a product already sold.
transferToWholesalerUnlessSold(w, productId, wholesalerName) ==
    LET w1 == Stub(w, "getMSPID") IN
    IF w.mspid = "manufacturerMSP" THEN
        LET exists == productExists(w1, productId) IN
        IF ~ exists.value THEN
            Throw(exists.w, ProductMissing(productId))
        ELSE
            LET w2 == Stub(exists.w, "getState")
                product == Parse(w.products[productId])
                updated == SetField(SetField(product, "status", TransferredToWholesaler),
                                    "ownedBy", Str(wholesalerName))
            IN  IF product.rec.status = FinalizedForMarketSale
                THEN Throw(w2, <<"Product", productId, "is sold">>)
                ELSE Return(putState(w2, productId, updated), Undefined)
    ELSE
        Return(w1, DeniedProduct(w.mspid))

transferToWholesaler(w, productId, wholesalerName) ==
    LET w1 == Stub(w, "getMSPID") IN
    IF w.mspid = "manufacturerMSP" THEN
        LET exists == productExists(w1, productId) IN
        IF ~ exists.value THEN
            Throw(exists.w, ProductMissing(productId))
        ELSE
            LET w2 == Stub(exists.w, "getState")
                product == Parse(w.products[productId])
                updated == SetField(SetField(product, "status", TransferredToWholesaler),
                                    "ownedBy", Str(wholesalerName))
            IN  Return(putState(w2, productId, updated), Undefined)
    ELSE
        Return(w1, DeniedProduct(w.mspid))

\* A comparison of the types alone.
MatchesType(orderDetails, productDetails) ==
    orderDetails.rec.type = productDetails.rec.type

\* order.type === product.type && order.quantity <= product.quantity
Matches(orderDetails, productDetails) ==
    /\ orderDetails.rec.type = productDetails.rec.type
    /\ JsLessEq(orderDetails.rec.quantity, productDetails.rec.quantity)

\* A match that deletes the order itself, whoever invokes it.
AssignDeletingOrder(w, productId, orderId, productDetails, orderDetails) ==
    IF Matches(orderDetails, productDetails) THEN
        LET updated == SetField(SetField(productDetails, "ownedBy",
                                         orderDetails.rec.distributerName),
                                "status", AssignedToOrder)
            w1 == putState(w, productId, updated)
        IN  Return(deletePrivateData(w1, orderId),
                   <<"Product", productId, "is assigned to",
                     orderDetails.rec.distributerName.s>>)
    ELSE
        Return(w, Mismatch)

\* A match that leaves the product with the quantity of the order.
AssignTakingQuantity(w, productId, orderId, productDetails, orderDetails) ==
    IF Matches(orderDetails, productDetails) THEN
        LET updated == SetField(SetField(SetField(productDetails, "ownedBy",
                                                  orderDetails.rec.distributerName),
                                         "status", AssignedToOrder),
                                "quantity", orderDetails.rec.quantity)
            w1 == putState(w, productId, updated)
            deleted == deleteOrder(w1, orderId)
        IN  IF deleted.outcome = "throw" THEN deleted
            ELSE Return(deleted.w,
                        <<"Product", productId, "is assigned to",
                          orderDetails.rec.distributerName.s>>)
    ELSE
        Return(w, Mismatch)

\* The branch of matchOrder after both records are read; the same text in
\* both ProductContracts.
AssignOrMismatch(w, productId, orderId, productDetails, orderDetails) ==
    IF Matches(orderDetails, productDetails) THEN
        LET updated == SetField(SetField(productDetails, "ownedBy",
                                         orderDetails.rec.distributerName),
                                "status", AssignedToOrder)
            w1 == putState(w, productId, updated)
            deleted == deleteOrder(w1, orderId)
        IN  IF deleted.outcome = "throw" THEN deleted
            ELSE Return(deleted.w,
                        <<"Product", productId, "is assigned to",
                          orderDetails.rec.distributerName.s>>)
    ELSE
        Return(w, Mismatch)

\* A matchOrder that asks for the wholesaler but not for the status.
matchOrderAnyStatus(w, productId, orderId) ==
    LET w1 == Stub(w, "getMSPID") IN
    IF w.mspid # "wholesalerMSP" THEN
        Return(w1, DeniedMatch(w.mspid))
    ELSE
        LET productDetails == readProduct(w1, productId) IN
        IF productDetails.outcome = "throw" THEN productDetails
        ELSE
            LET orderDetails == readOrder(productDetails.w, orderId) IN
            IF orderDetails.outcome = "throw" THEN orderDetails
            ELSE AssignOrMismatch(orderDetails.w, productId, orderId,
                                  productDetails.value, orderDetails.value)

\* matchOrder of src/lib/order-contract.js
matchOrderA(w, productId, orderId) ==
    LET w1 == Stub(w, "getMSPID") IN
    IF w.mspid # "wholesalerMSP" THEN
        Return(w1, DeniedMatch(w.mspid))
    ELSE
        LET productExistsR == productExists(w1, productId) IN
        IF ~ productExistsR.value THEN
            Throw(productExistsR.w, ProductMissing(productId))
        ELSE
            LET productDetails == readProduct(productExistsR.w, productId) IN
            IF productDetails.outcome = "throw" THEN productDetails
            ELSE IF productDetails.value.rec.status # TransferredToWholesaler THEN
                Throw(productDetails.w,
                      <<"Product", productId,
                        "must be 'Transferred to Wholesaler' before matching an order.">>)
            ELSE
                LET orderExistsR == orderExists(productDetails.w, orderId) IN
                IF ~ orderExistsR.value THEN
                    Throw(orderExistsR.w, OrderMissing(orderId))
                ELSE
                    LET orderDetails == readOrder(orderExistsR.w, orderId) IN
                    IF orderDetails.outcome = "throw" THEN orderDetails
                    ELSE AssignOrMismatch(orderDetails.w, productId, orderId,
                                          productDetails.value, orderDetails.value)

\* matchOrder of src/unnamed/part_000
matchOrderB(w, productId, orderId) ==
    LET productExistsR == productExists(w, productId) IN
    IF ~ productExistsR.value THEN
        Throw(productExistsR.w, ProductMissing(productId))
    ELSE
        LET orderExistsR == orderExists(productExistsR.w, orderId) IN
        IF ~ orderExistsR.value THEN
            Throw(orderExistsR.w, OrderMissing(orderId))
        ELSE
            LET productDetails == readProduct(orderExistsR.w, productId) IN
            IF productDetails.outcome = "throw" THEN productDetails
            ELSE
                LET orderDetails == readOrder(productDetails.w, orderId) IN
                IF orderDetails.outcome = "throw" THEN orderDetails
                ELSE AssignOrMismatch(orderDetails.w, productId, orderId,
                                      productDetails.value, orderDetails.value)

matchOrder(v, w, productId, orderId) ==
    IF v = "A" THEN matchOrderA(w, productId, orderId)
    ELSE matchOrderB(w, productId, orderId)

assignProductToMarket(w, productId, ownerName, marketName) ==
    LET w1 == Stub(w, "getMSPID") IN
    IF w.mspid = "distributerMSP" THEN
        LET exists == productExists(w1, productId) IN
        IF ~ exists.value THEN
            Throw(exists.w, ProductMissing(productId))
        ELSE
            LET w2 == Stub(exists.w, "getState")
                productDetails == Parse(w.products[productId])
                updated == SetField(SetField(productDetails, "status",
                                             AssignedToMarket(ownerName, marketName)),
                                    "ownedBy", Str(ownerName))
            IN  Return(putState(w2, productId, updated),
                       <<"Product", productId, "is successfully assigned to", ownerName>>)
    ELSE
        Return(w1, DeniedAssign(w.mspid))

\* Only the ProductContract of src/lib/order-contract.js has this function.
completeProductSaleAtMarket(w, productId, salePrice) ==
    LET w1 == Stub(w, "getMSPID") IN
    IF w.mspid = "marketMSP" THEN
        LET exists == productExists(w1, productId) IN
        IF ~ exists.value THEN
            Throw(exists.w, ProductMissing(productId))
        ELSE
            LET w2 == Stub(exists.w, "getState")
                productDetails == Parse(w.products[productId])
            IN  IF ~ startsWith(productDetails.rec.status.s, <<"Assigned to">>) THEN
                    Throw(w2, <<"Product", productId,
                                "must be 'Assigned to Market' before completing the sale.">>)
                ELSE
                    LET updated == SetField(SetField(productDetails, "status",
                                                     FinalizedForMarketSale),
                                            "salePrice", Str(salePrice))
                    IN  Return(putState(w2, productId, updated),
                               <<"Product", productId,
                                 "has been successfully completed for sale at Market with final sale price",
                                 salePrice>>)
    ELSE
        Return(w1, DeniedSale(w.mspid))

---------------------------------------------------------------------------
\* The iterator-backed functions: queryAllOrders and getOrdersByRange of
\* OrderContract, and queryAllProducts, getProductHistory and
\* getProductsWithPagination of the ProductContract of src/unnamed/part_000.

\* The order in which a scan of a partition meets the keys.
ProductKeyOrder == <<"p1", "p2">>
OrderKeyOrder == <<"o1", "o2">>

Position(keyOrder, key) == CHOOSE i \in 1..Len(keyOrder) : keyOrder[i] = key

\* A range bound; the empty text leaves the range open on that side.
Unbounded == ""

\* startKey <= key < endKey
InRange(keyOrder, key, startKey, endKey) ==
    /\ startKey = Unbounded
       \/ Position(keyOrder, startKey) <= Position(keyOrder, key)
    /\ endKey = Unbounded
       \/ Position(keyOrder, key) < Position(keyOrder, endKey)

\* What the successive next() calls of an iterator give before it is done:
\* the chosen records of the partition in key order; the call numbered
\* failAt, if the iterator gets that far, is rejected (0: none is).
Iterator(store, keyOrder, chosen, failAt) ==
    LET keys == SelectSeq(keyOrder, LAMBDA k : k \in DOMAIN store
                                               /\ store[k] # EmptyBuffer
                                               /\ chosen[k])
        found == [i \in 1..Len(keys) |->
                     [rejected |-> FALSE, key |-> keys[i], value |-> store[keys[i]]]]
    IN  IF failAt \in 1..(Len(found) + 1)
        THEN Append(SubSeq(found, 1, failAt - 1), [rejected |-> TRUE])
        ELSE found

\* The loop of _getAllResults from the i-th next() on; the iterator is closed
\* after the loop.
RECURSIVE Drain(_, _, _, _)
Drain(w, iterator, i, allResults) ==
    LET w1 == Stub(w, "iterator.next") IN
    IF i > Len(iterator) THEN
        Return(Stub(w1, "iterator.close"), allResults)
    ELSE IF iterator[i].rejected THEN
        Throw(w1, <<"iterator.next rejected">>)
    ELSE IF iterator[i].value = EmptyBuffer THEN
        Drain(w1, iterator, i + 1, allResults)
    ELSE
        Drain(w1, iterator, i + 1,
              Append(allResults,
                     [Key |-> iterator[i].key, Record |-> Parse(iterator[i].value).rec]))

getAllResults(w, iterator) == Drain(w, iterator, 1, <<>>)

queryAllOrders(w, failAt) ==
    LET w1 == Stub(w, "getPrivateDataQueryResult")
        resultIterator ==
            Iterator(w.orders, OrderKeyOrder,
                     [o \in DOMAIN w.orders |-> w.orders[o].assetType = Str("order")],
                     failAt)
    IN  getAllResults(w1, resultIterator)

getOrdersByRange(w, startKey, endKey, failAt) ==
    LET w1 == Stub(w, "getPrivateDataByRange")
        resultIterator ==
            Iterator(w.orders, OrderKeyOrder,
                     [o \in DOMAIN w.orders |->
                         InRange(OrderKeyOrder, o, startKey, endKey)],
                     failAt)
    IN  getAllResults(w1, resultIterator)

queryAllProducts(w, failAt) ==
    LET w1 == Stub(w, "getQueryResult")
        resultIterator ==
            Iterator(w.products, ProductKeyOrder,
                     [p \in DOMAIN w.products |->
                         w.products[p].assetType = Str("product")],
                     failAt)
    IN  getAllResults(w1, resultIterator)

\* The history iterator gives the versions of the key; the model keeps the
\* latest one, which is the stored record of a live key.
getProductHistory(w, productId, failAt) ==
    LET w1 == Stub(w, "getHistoryForKey")
        resultIterator ==
            Iterator(w.products, ProductKeyOrder,
                     [p \in DOMAIN w.products |-> p = productId], failAt)
    IN  getAllResults(w1, resultIterator)

\* The page holds at most pageSize records after the bookmark.
getProductsWithPagination(w, pageSize, bookmark, failAt) ==
    LET w1 == Stub(w, "getQueryResultWithPagination")
        pageSizeInt == parseInt(pageSize)
        after == Iterator(w.products, ProductKeyOrder,
                          [p \in DOMAIN w.products |->
                              /\ w.products[p].assetType = Str("product")
                              /\ bookmark = Unbounded
                                 \/ Position(ProductKeyOrder, bookmark)
                                        < Position(ProductKeyOrder, p)],
                          0)
        page == SubSeq(after, 1, IF pageSizeInt.v \div Scale < Len(after)
                                 THEN pageSizeInt.v \div Scale ELSE Len(after))
        iterator == IF failAt \in 1..(Len(page) + 1)
                    THEN Append(SubSeq(page, 1, failAt - 1), [rejected |-> TRUE])
                    ELSE page
        results == getAllResults(w1, iterator)
    IN  IF results.outcome = "throw" THEN results
        ELSE Return(results.w,
                    [Result |-> results.value,
                     ResponseMetaData |->
                         [RecordCount |-> Len(page),
                          Bookmark |-> IF Len(page) = 0 THEN bookmark
                                       ELSE page[Len(page)].key]])

---------------------------------------------------------------------------
\* What the callers supply.

Digit(n) == <<DigitChars[n + 1]>>

\* Product quantities arrive as the decimal text of 1..MaxQuantity.
ProductQuantities == {Digit(n) : n \in 1..MaxQuantity}

\* Transient quantity and price texts: well-formed numbers, a number followed
\* by a letter, a negative number, and a text with no digit.
QuantityTexts ==
    {Digit(n) : n \in 1..MaxQuantity} \cup {<<"1", "z">>, <<"-", "1">>, <<"z">>}
PriceTexts == {<<"1", ".", "5">>, <<"-", "1">>, <<"z">>}

BaseTransient ==
    [type |-> "wheat", quantity |-> <<"1">>, price |-> <<"1", ".", "5">>,
     distributerName |-> "D1"]

\* Transient maps with all four fields: the base map with one field varied.
CompleteTransients ==
    {[BaseTransient EXCEPT !.type = t] : t \in Types}
    \cup {[BaseTransient EXCEPT !.quantity = q] : q \in QuantityTexts}
    \cup {[BaseTransient EXCEPT !.price = p] : p \in PriceTexts}
    \cup {[BaseTransient EXCEPT !.distributerName = d] : d \in DistributerNames}

\* Transient maps that lack at least one of the four fields.
IncompleteTransients ==
    {[f \in F |-> BaseTransient[f]] : F \in (SUBSET TransientFields) \ {TransientFields}}

Transients == CompleteTransients \cup IncompleteTransients

---------------------------------------------------------------------------
\* The state machine: one action per contract function.

\* A function called with the key alone.
NoArgs == <<>>

\* The ledger is empty when the chaincode is deployed.
InitOn(P, O) ==
    /\ variant \in {"A", "B"}
    /\ products = [p \in P |-> EmptyBuffer]
    /\ orders = [o \in O |-> EmptyBuffer]
    /\ last = [op |-> "none", mspid |-> NoKey, productId |-> NoKey, orderId |-> NoKey,
               args |-> NoArgs, outcome |-> "return", value |-> Undefined,
               calls |-> <<>>, event |-> NoEvent, assigned |-> {}]

\* The records kept of the products P and of the orders O: none yet.
Recording(P, O) ==
    /\ had = [p \in P |-> {}]
    /\ matches = [o \in O |-> 0]

\* The statuses had, after a transaction that found the key holding buffer
\* and left it holding written: the record starts anew at each creation.
StatusesHad(statuses, buffer, written) ==
    IF written = EmptyBuffer THEN {}
    ELSE IF buffer = EmptyBuffer THEN {written.status}
    ELSE statuses \cup {written.status}

\* r is a matchOrder that wrote the product: its order matched.
AssignedByMatch(op, r) ==
    /\ op = "matchOrder"
    /\ r.outcome = "return"
    /\ \E i \in DOMAIN r.w.calls : r.w.calls[i] = "putState"

\* The matches counted for an order, after a transaction that found its key
\* holding buffer and left it holding written.
MatchesCounted(count, buffer, written, matched) ==
    IF buffer = EmptyBuffer /\ written # EmptyBuffer THEN 0
    ELSE IF matched THEN count + 1
    ELSE count

\* The invocation ends with result r: its writes reach the partitions, and
\* last records who invoked what, with which arguments, and what came of it.
Invoke(op, productId, orderId, args, r) ==
    /\ products' = r.w.products
    /\ orders' = r.w.orders
    /\ had' = [p \in DOMAIN had |->
                  StatusesHad(had[p], products[p], r.w.products[p])]
    /\ matches' = [o \in DOMAIN matches |->
                      MatchesCounted(matches[o], orders[o], r.w.orders[o],
                                     orderId = o /\ AssignedByMatch(op, r))]
    /\ \A o \in DOMAIN matches : matches'[o] <= MaxMatches
    /\ last' = [op |-> op, mspid |-> r.w.mspid,
                productId |-> productId, orderId |-> orderId, args |-> args,
                outcome |-> r.outcome, value |-> r.value, calls |-> r.w.calls,
                event |-> r.w.event, assigned |-> r.w.assigned]
    /\ UNCHANGED variant

OrderExistsOn(O) ==
    \E m \in MSPs, o \in O :
        Invoke("orderExists", NoKey, o, NoArgs,
               orderExists(Context(m, NoTransient), o))

CreateOrderOn(O, T) ==
    \E m \in MSPs, o \in O, t \in T :
        Invoke("createOrder", NoKey, o, t, createOrder(Context(m, t), o))

ReadOrderOn(O) ==
    \E m \in MSPs, o \in O :
        Invoke("readOrder", NoKey, o, NoArgs, readOrder(Context(m, NoTransient), o))

DeleteOrderOn(O) ==
    \E m \in MSPs, o \in O :
        Invoke("deleteOrder", NoKey, o, NoArgs,
               deleteOrder(Context(m, NoTransient), o))

ProductExistsOn(P) ==
    \E m \in MSPs, p \in P :
        Invoke("productExists", p, NoKey, NoArgs,
               productExists(Context(m, NoTransient), p))

CreateProductOn(P) ==
    \E m \in MSPs, p \in P, type \in Types, quantity \in ProductQuantities,
       harvestDate \in HarvestDates, origin \in Origins, producerName \in ProducerNames :
        Invoke("createProduct", p, NoKey,
               [type |-> type, quantity |-> quantity, harvestDate |-> harvestDate,
                origin |-> origin, producerName |-> producerName],
               createProduct(Context(m, NoTransient), p, type, quantity, harvestDate,
                             origin, producerName))

ReadProductOn(P) ==
    \E m \in MSPs, p \in P :
        Invoke("readProduct", p, NoKey, NoArgs,
               readProduct(Context(m, NoTransient), p))

DeleteProductOn(P) ==
    \E m \in MSPs, p \in P :
        Invoke("deleteProduct", p, NoKey, NoArgs,
               deleteProduct(Context(m, NoTransient), p))

TransferToWholesalerOn(P) ==
    \E m \in MSPs, p \in P, wholesalerName \in WholesalerNames :
        Invoke("transferToWholesaler", p, NoKey,
               [wholesalerName |-> wholesalerName],
               transferToWholesaler(Context(m, NoTransient), p, wholesalerName))

MatchOrderOn(P, O) ==
    \E m \in MSPs, p \in P, o \in O :
        Invoke("matchOrder", p, o, NoArgs,
               matchOrder(variant, Context(m, NoTransient), p, o))

AssignProductToMarketOn(P) ==
    \E m \in MSPs, p \in P, ownerName \in OwnerNames, marketName \in MarketNames :
        Invoke("assignProductToMarket", p, NoKey,
               [ownerName |-> ownerName, marketName |-> marketName],
               assignProductToMarket(Context(m, NoTransient), p, ownerName, marketName))

CompleteProductSaleAtMarketOn(P) ==
    /\ variant = "A"
    /\ \E m \in MSPs, p \in P, salePrice \in SalePrices :
        Invoke("completeProductSaleAtMarket", p, NoKey, [salePrice |-> salePrice],
               completeProductSaleAtMarket(Context(m, NoTransient), p, salePrice))

QueryAllOrdersOn(O) ==
    \E m \in MSPs, failAt \in 0..MaxFailAt :
        Invoke("queryAllOrders", NoKey, NoKey, [failAt |-> failAt],
               queryAllOrders(Context(m, NoTransient), failAt))

GetOrdersByRangeOn(O) ==
    \E m \in MSPs, startKey \in O \cup {Unbounded}, endKey \in O \cup {Unbounded},
       failAt \in 0..MaxFailAt :
        Invoke("getOrdersByRange", NoKey, NoKey,
               [startKey |-> startKey, endKey |-> endKey, failAt |-> failAt],
               getOrdersByRange(Context(m, NoTransient), startKey, endKey, failAt))

QueryAllProductsOn(P) ==
    /\ variant = "B"
    /\ \E m \in MSPs, failAt \in 0..MaxFailAt :
        Invoke("queryAllProducts", NoKey, NoKey, [failAt |-> failAt],
               queryAllProducts(Context(m, NoTransient), failAt))

GetProductHistoryOn(P) ==
    /\ variant = "B"
    /\ \E m \in MSPs, p \in P, failAt \in 0..MaxFailAt :
        Invoke("getProductHistory", p, NoKey, [failAt |-> failAt],
               getProductHistory(Context(m, NoTransient), p, failAt))

GetProductsWithPaginationOn(P) ==
    /\ variant = "B"
    /\ \E m \in MSPs, pageSize \in ProductQuantities, bookmark \in P \cup {Unbounded},
          failAt \in 0..MaxFailAt :
        Invoke("getProductsWithPagination", NoKey, NoKey,
               [pageSize |-> pageSize, bookmark |-> bookmark, failAt |-> failAt],
               getProductsWithPagination(Context(m, NoTransient), pageSize, bookmark,
                                         failAt))

\* Callers naming the products P and the orders O, with transient maps of T.
NextOn(P, O, T) ==
    \/ OrderExistsOn(O)
    \/ CreateOrderOn(O, T)
    \/ ReadOrderOn(O)
    \/ DeleteOrderOn(O)
    \/ ProductExistsOn(P)
    \/ CreateProductOn(P)
    \/ ReadProductOn(P)
    \/ DeleteProductOn(P)
    \/ TransferToWholesalerOn(P)
    \/ MatchOrderOn(P, O)
    \/ AssignProductToMarketOn(P)
    \/ CompleteProductSaleAtMarketOn(P)

\* Spec: both contracts, callers naming ProductIds and OrderIds; the transient
\* map is complete or lacks everything.
Init == InitOn(ProductIds, OrderIds) /\ Recording({}, {})

Next == NextOn(ProductIds, OrderIds, CompleteTransients \cup {NoTransient})

Spec == Init /\ [][Next]_vars

\* SpecOrders: the OrderContract alone, callers naming TwoOrderIds, with any
\* transient map.
InitOrders == InitOn(ProductIds, TwoOrderIds) /\ Recording({}, {}) /\ variant = "A"

NextOrders ==
    \/ OrderExistsOn(TwoOrderIds)
    \/ CreateOrderOn(TwoOrderIds, Transients)
    \/ ReadOrderOn(TwoOrderIds)
    \/ DeleteOrderOn(TwoOrderIds)

SpecOrders == InitOrders /\ [][NextOrders]_vars

\* SpecQueries: the iterator-backed functions, over a ledger of ProductIds
\* and TwoOrderIds that creates and deletes fill and empty.
InitQueries == InitOn(ProductIds, TwoOrderIds) /\ Recording({}, {})

NextQueries ==
    \/ CreateOrderOn(TwoOrderIds, {BaseTransient})
    \/ DeleteOrderOn(TwoOrderIds)
    \/ CreateProductOn(ProductIds)
    \/ DeleteProductOn(ProductIds)
    \/ QueryAllOrdersOn(TwoOrderIds)
    \/ GetOrdersByRangeOn(TwoOrderIds)
    \/ QueryAllProductsOn(ProductIds)
    \/ GetProductHistoryOn(ProductIds)
    \/ GetProductsWithPaginationOn(ProductIds)

SpecQueries == InitQueries /\ [][NextQueries]_vars

\* The custody of one product: the functions that write a product's status,
\* with the statuses the product has had recorded.
InitCustody == InitOn(ProductIds, OrderIds) /\ Recording(ProductIds, {})

NextCustody ==
    \/ CreateOrderOn(OrderIds, {BaseTransient})
    \/ CreateProductOn(ProductIds)
    \/ DeleteProductOn(ProductIds)
    \/ TransferToWholesalerOn(ProductIds)
    \/ MatchOrderOn(ProductIds, OrderIds)
    \/ AssignProductToMarketOn(ProductIds)
    \/ CompleteProductSaleAtMarketOn(ProductIds)

SpecCustody == InitCustody /\ [][NextCustody]_vars

\* One order and two products to match it with, with the matches of the
\* order counted.
InitMatches == InitOn(TwoProductIds, OrderIds) /\ Recording({}, OrderIds)

NextMatches ==
    \/ CreateOrderOn(OrderIds, {BaseTransient})
    \/ DeleteOrderOn(OrderIds)
    \/ CreateProductOn(TwoProductIds)
    \/ TransferToWholesalerOn(TwoProductIds)
    \/ MatchOrderOn(TwoProductIds, OrderIds)

SpecMatches == InitMatches /\ [][NextMatches]_vars

---------------------------------------------------------------------------
\* Properties.  In a step, last' names the function invoked, its invoker and
\* arguments; the unprimed partitions are the ledger the function found.

Live(buffer) == buffer # EmptyBuffer

\* a > b of JavaScript for a stored order quantity and a product quantity.
QuantityAbove(a, b) ==
    LET x == ToNumber(a)
        y == ToNumber(b)
    IN  x # NaN /\ y # NaN /\ x.v > y.v

\* The order and the product are live, the product is with the wholesaler,
\* and the order asks for the product's type and no more than its quantity.
Fits(productId, orderId) ==
    /\ Live(products[productId])
    /\ Live(orders[orderId])
    /\ products[productId].status = TransferredToWholesaler
    /\ orders[orderId].type = products[productId].type
    /\ ~ QuantityAbove(orders[orderId].quantity, products[productId].quantity)

\* C1: where matchOrder asks for the wholesaler (src/lib/order-contract.js),
\* a matchOrder by a wholesaler on a live product with status 'Transferred
\* to Wholesaler' and a live order of the same type and of a quantity not
\* above the product's leaves the product 'Assigned to Order', owned by the
\* order's distributer, and the order no longer existing.
MatchAssignsProductAndDeletesOrder ==
    [][(/\ variant = "A"
        /\ last'.op = "matchOrder"
        /\ last'.mspid = "wholesalerMSP"
        /\ Fits(last'.productId, last'.orderId))
       => (/\ Live(products'[last'.productId])
           /\ products'[last'.productId].status = AssignedToOrder
           /\ products'[last'.productId].ownedBy
                  = orders[last'.orderId].distributerName
           /\ orders'[last'.orderId] = EmptyBuffer)]_vars

\* The affiliation each gated function asks for.
Gated ==
    {"createOrder", "deleteOrder", "createProduct", "deleteProduct",
     "transferToWholesaler", "assignProductToMarket",
     "completeProductSaleAtMarket", "matchOrder"}

Required(op) ==
    CASE op \in {"createOrder", "deleteOrder", "assignProductToMarket"}
             -> "distributerMSP"
      [] op \in {"createProduct", "deleteProduct", "transferToWholesaler"}
             -> "manufacturerMSP"
      [] op = "matchOrder" -> "wholesalerMSP"
      [] op = "completeProductSaleAtMarket" -> "marketMSP"

Denial(op, mspid) ==
    CASE op \in {"createOrder", "deleteOrder"} -> DeniedOrder(mspid)
      [] op \in {"createProduct", "deleteProduct", "transferToWholesaler"}
             -> DeniedProduct(mspid)
      [] op = "matchOrder" -> DeniedMatch(mspid)
      [] op = "assignProductToMarket" -> DeniedAssign(mspid)
      [] op = "completeProductSaleAtMarket" -> DeniedSale(mspid)

\* C2: a gated function (matchOrder where it is gated) invoked by another
\* affiliation than the one it asks for makes no stub call after getMSPID,
\* leaves both partitions unchanged, sets no event, and returns its denial
\* message as a normal result, whether or not the key is live.
WrongAffiliationIsDenied ==
    [][(/\ last'.op \in Gated
        /\ last'.op = "matchOrder" => variant = "A"
        /\ last'.mspid # Required(last'.op))
       => (/\ last'.calls = <<"getMSPID">>
           /\ UNCHANGED <<products, orders>>
           /\ last'.event = NoEvent
           /\ last'.outcome = "return"
           /\ last'.value = Denial(last'.op, last'.mspid))]_vars

\* createProduct by another affiliation on a key that is live.
DeniedOnLiveKey ==
    /\ last.op = "createProduct"
    /\ last.mspid # "manufacturerMSP"
    /\ Live(products[last.productId])
    /\ last.outcome = "return"
    /\ last.value = DeniedProduct(last.mspid)

\* C3: in both ProductContracts, a matchOrder by another affiliation than
\* the wholesaler changes no product and deletes no order.
MatchByNonWholesalerChangesNothing ==
    [][(last'.op = "matchOrder" /\ last'.mspid # "wholesalerMSP")
       => UNCHANGED <<products, orders>>]_vars

\* C4: createProduct by a manufacturer, and createOrder by a distributer, on
\* a key that is live throws 'already exists' whatever the values supplied,
\* and leaves every record as it was.
CreateOnLiveKeyFails ==
    [][/\ (/\ last'.op = "createProduct"
           /\ last'.mspid = "manufacturerMSP"
           /\ Live(products[last'.productId]))
          => (/\ last'.outcome = "throw"
              /\ last'.value = <<"The product", last'.productId, "already exists">>
              /\ UNCHANGED <<products, orders>>)
       /\ (/\ last'.op = "createOrder"
           /\ last'.mspid = "distributerMSP"
           /\ Live(orders[last'.orderId]))
          => (/\ last'.outcome = "throw"
              /\ last'.value = <<"The order", last'.orderId, "already exists">>
              /\ UNCHANGED <<products, orders>>)]_vars

\* createProduct refused on a live key whose record holds another type than
\* the one supplied.
CreateRefusedOnLiveKey ==
    /\ last.op = "createProduct"
    /\ last.mspid = "manufacturerMSP"
    /\ last.outcome = "throw"
    /\ Live(products[last.productId])
    /\ products[last.productId].type # Str(last.args.type)

RequiredFields == {"type", "quantity", "price", "distributerName"}

\* C5: createOrder by a distributer on a key that is not live, with a
\* transient map lacking one or more of the four required fields, throws
\* and writes nothing: the key is still not live and no other order changes.
MissingFieldFailsWithoutWrite ==
    [][(/\ last'.op = "createOrder"
        /\ last'.mspid = "distributerMSP"
        /\ ~ Live(orders[last'.orderId])
        /\ ~ (RequiredFields \subseteq DOMAIN last'.args))
       => (/\ last'.outcome = "throw"
           /\ last'.value = <<"Required fields are missing in transient data">>
           /\ ~ Live(orders'[last'.orderId])
           /\ UNCHANGED <<products, orders>>)]_vars

\* createOrder refused for one missing field while another order is live.
RefusedForOneMissingField ==
    /\ last.op = "createOrder"
    /\ last.mspid = "distributerMSP"
    /\ last.outcome = "throw"
    /\ last.value = <<"Required fields are missing in transient data">>
    /\ Cardinality(DOMAIN last.args) = 3
    /\ ~ Live(orders[last.orderId])
    /\ \E o \in DOMAIN orders : Live(orders[o])

\* The text holds no digit, so no reading of it is a number.
HasNoDigit(s) == \A i \in 1..Len(s) : ~ IsDigit(s[i])

\* C6: createOrder by a distributer on a key that is not live, with all four
\* fields but a quantity or a price that is no number, throws and stores no
\* order.
UnparseableNumberFails ==
    [][(/\ last'.op = "createOrder"
        /\ last'.mspid = "distributerMSP"
        /\ ~ Live(orders[last'.orderId])
        /\ RequiredFields \subseteq DOMAIN last'.args
        /\ (HasNoDigit(last'.args.quantity) \/ HasNoDigit(last'.args.price)))
       => (/\ last'.outcome = "throw"
           /\ UNCHANGED orders)]_vars

\* C7: a deleteProduct by a manufacturer, or a deleteOrder by a distributer,
\* that succeeds leaves the key not live; a key that is not live becomes
\* live only by the create of that key; and in every state exists answers
\* whether the key is live, and read throws 'does not exist' for a key that
\* is not live and returns the stored record for one that is.
DeletedKeyIsGoneUntilCreated ==
    [][/\ (/\ last'.op = "deleteProduct"
           /\ last'.mspid = "manufacturerMSP"
           /\ last'.outcome = "return")
          => ~ Live(products'[last'.productId])
       /\ (/\ last'.op = "deleteOrder"
           /\ last'.mspid = "distributerMSP"
           /\ last'.outcome = "return")
          => ~ Live(orders'[last'.orderId])
       /\ \A p \in DOMAIN products :
              (~ Live(products[p]) /\ Live(products'[p]))
              => (last'.op = "createProduct" /\ last'.productId = p)
       /\ \A o \in DOMAIN orders :
              (~ Live(orders[o]) /\ Live(orders'[o]))
              => (last'.op = "createOrder" /\ last'.orderId = o)
       /\ last'.op = "productExists"
          => (last'.outcome = "return"
              /\ last'.value = Live(products[last'.productId]))
       /\ last'.op = "orderExists"
          => (last'.outcome = "return"
              /\ last'.value = Live(orders[last'.orderId]))
       /\ last'.op = "readProduct"
          => IF Live(products[last'.productId])
             THEN last'.outcome = "return"
                  /\ last'.value.rec = products[last'.productId]
             ELSE last'.outcome = "throw"
                  /\ last'.value = ProductMissing(last'.productId)
       /\ last'.op = "readOrder"
          => IF Live(orders[last'.orderId])
             THEN last'.outcome = "return"
                  /\ last'.value.rec = orders[last'.orderId]
             ELSE last'.outcome = "throw"
                  /\ last'.value = OrderMissing(last'.orderId)]_vars

\* A product that was live, deleted by a manufacturer.
ProductDeleted ==
    /\ last.op = "deleteProduct"
    /\ last.mspid = "manufacturerMSP"
    /\ last.outcome = "return"
    /\ "deleteState" \in {last.calls[i] : i \in DOMAIN last.calls}
    /\ ~ Live(products[last.productId])

\* matchOrder is past its checks of affiliation, existence and status.
PastChecks(v, mspid, productId, orderId) ==
    /\ Live(products[productId])
    /\ Live(orders[orderId])
    /\ v = "A" => /\ mspid = "wholesalerMSP"
                  /\ products[productId].status = TransferredToWholesaler

\* C8: a matchOrder past its checks, on an order whose type differs from
\* the product's or whose quantity is above the product's, returns 'Order
\* does not match the product specifications' as a normal result and leaves
\* the product and the order as they were.
MismatchChangesNothing ==
    [][(/\ last'.op = "matchOrder"
        /\ PastChecks(variant, last'.mspid, last'.productId, last'.orderId)
        /\ \/ orders[last'.orderId].type # products[last'.productId].type
           \/ QuantityAbove(orders[last'.orderId].quantity,
                            products[last'.productId].quantity))
       => (/\ last'.outcome = "return"
           /\ last'.value = Mismatch
           /\ UNCHANGED <<products, orders>>)]_vars

\* A mismatch by the quantity alone.
MismatchByQuantity ==
    /\ last.op = "matchOrder"
    /\ last.outcome = "return"
    /\ last.value = Mismatch
    /\ orders[last.orderId].type = products[last.productId].type
    /\ QuantityAbove(orders[last.orderId].quantity,
                     products[last.productId].quantity)

StatusAndOwnerAssignedTogether ==
    ("status" \in last.assigned) <=> ("ownedBy" \in last.assigned)

MustBeTransferred(productId) ==
    <<"Product", productId,
      "must be 'Transferred to Wholesaler' before matching an order.">>

\* C11 as stated: in src/lib/order-contract.js, a matchOrder on a live
\* product whose status is not 'Transferred to Wholesaler' throws and
\* changes neither the product nor the order, whoever invokes it.
MatchOffStatusThrows ==
    [][(/\ variant = "A"
        /\ last'.op = "matchOrder"
        /\ Live(products[last'.productId])
        /\ products[last'.productId].status # TransferredToWholesaler)
       => (/\ last'.outcome = "throw"
           /\ UNCHANGED <<products, orders>>)]_vars

\* C11 amended: in src/lib/order-contract.js, a matchOrder by a wholesaler
\* on a live product whose status is not 'Transferred to Wholesaler' throws
\* 'must be Transferred to Wholesaler' and changes neither the product nor
\* the order, even when the order is live and fits; and a product record is
\* written with status 'Assigned to Order' only in a step from status
\* 'Transferred to Wholesaler'.
MatchByWholesalerOffStatusThrows ==
    [][variant = "A"
       => /\ (/\ last'.op = "matchOrder"
              /\ last'.mspid = "wholesalerMSP"
              /\ Live(products[last'.productId])
              /\ products[last'.productId].status # TransferredToWholesaler)
             => (/\ last'.outcome = "throw"
                 /\ last'.value = MustBeTransferred(last'.productId)
                 /\ UNCHANGED <<products, orders>>)
          /\ \A p \in DOMAIN products :
                 (/\ Live(products'[p])
                  /\ products'[p] # products[p]
                  /\ products'[p].status = AssignedToOrder)
                 => (/\ Live(products[p])
                     /\ products[p].status = TransferredToWholesaler)]_vars

\* A wholesaler's matchOrder refused for the status although the order is
\* live and fits the product.
MatchRefusedForStatus ==
    /\ variant = "A"
    /\ last.op = "matchOrder"
    /\ last.mspid = "wholesalerMSP"
    /\ last.outcome = "throw"
    /\ last.value = MustBeTransferred(last.productId)
    /\ Live(orders[last.orderId])
    /\ orders[last.orderId].type = products[last.productId].type
    /\ ~ QuantityAbove(orders[last.orderId].quantity,
                       products[last.productId].quantity)

\* C12: while an order stays live its record does not change; an order
\* becomes live only by the createOrder of its key, and ceases to be live
\* only by a deleteOrder or a matchOrder naming its key.
OrdersImmutableUntilDeleted ==
    [][\A o \in DOMAIN orders :
           /\ (Live(orders[o]) /\ Live(orders'[o])) => orders'[o] = orders[o]
           /\ (~ Live(orders[o]) /\ Live(orders'[o]))
              => (last'.op = "createOrder" /\ last'.orderId = o)
           /\ (Live(orders[o]) /\ ~ Live(orders'[o]))
              => (last'.op \in {"deleteOrder", "matchOrder"} /\ last'.orderId = o)]_vars

\* createOrder by a distributer refused on a live key whose record holds
\* another type than the one supplied.
OrderKeptAgainstCreate ==
    /\ last.op = "createOrder"
    /\ last.mspid = "distributerMSP"
    /\ last.outcome = "throw"
    /\ Live(orders[last.orderId])
    /\ RequiredFields \subseteq DOMAIN last.args
    /\ orders[last.orderId].type # Str(last.args.type)

IteratorFunctions ==
    {"queryAllOrders", "getOrdersByRange", "queryAllProducts",
     "getProductHistory", "getProductsWithPagination"}

\* C13: an iterator-backed function has closed its iterator when it returns
\* or throws, whether the draining came to its end or failed partway.
IteratorClosedOnEveryExit ==
    last.op \in IteratorFunctions
    => \E i \in DOMAIN last.calls : last.calls[i] = "iterator.close"

\* C14: transferToWholesaler by a manufacturer on a live product succeeds
\* whatever the status, 'Assigned to ...' and 'Finalized for Market Sale'
\* included, and leaves status 'Transferred to Wholesaler' and ownedBy the
\* wholesaler named.
TransferSucceedsFromAnyStatus ==
    [][(/\ last'.op = "transferToWholesaler"
        /\ last'.mspid = "manufacturerMSP"
        /\ Live(products[last'.productId]))
       => (/\ last'.outcome = "return"
           /\ last'.value = Undefined
           /\ Live(products'[last'.productId])
           /\ products'[last'.productId].status = TransferredToWholesaler
           /\ products'[last'.productId].ownedBy = Str(last'.args.wholesalerName))]_vars

\* A product transferred again after its sale: it keeps the salePrice.
TransferredAfterSale ==
    /\ last.op = "transferToWholesaler"
    /\ last.outcome = "return"
    /\ Live(products[last.productId])
    /\ products[last.productId].status = TransferredToWholesaler
    /\ "salePrice" \in DOMAIN products[last.productId]

\* C15: createProduct by a manufacturer on a key that is not live stores
\* exactly the four fields supplied, status 'Harvested', ownedBy the
\* producer named and assetType 'product', with no salePrice, whatever the
\* key held before; and readProduct of a live key returns the stored record.
CreateThenReadGivesHarvested ==
    [][/\ (/\ last'.op = "createProduct"
           /\ last'.mspid = "manufacturerMSP"
           /\ ~ Live(products[last'.productId]))
          => (/\ last'.outcome = "return"
              /\ products'[last'.productId]
                     = [type |-> Str(last'.args.type),
                        quantity |-> Str(last'.args.quantity),
                        harvestDate |-> Str(last'.args.harvestDate),
                        origin |-> Str(last'.args.origin),
                        status |-> Harvested,
                        ownedBy |-> Str(last'.args.producerName),
                        assetType |-> Str("product")])
       /\ (last'.op = "readProduct" /\ Live(products[last'.productId]))
          => (/\ last'.outcome = "return"
              /\ last'.value.rec = products[last'.productId]
              /\ UNCHANGED products)]_vars

\* readProduct returning a 'Harvested' record without salePrice.
HarvestedRecordRead ==
    /\ last.op = "readProduct"
    /\ last.outcome = "return"
    /\ last.value.rec.status = Harvested
    /\ last.value.rec.assetType = Str("product")
    /\ "salePrice" \notin DOMAIN last.value.rec

\* C16: every stored order has a quantity that is an integer greater than
\* zero, a price that is a number not below zero, and assetType 'order'.
StoredOrdersAreWellFormed ==
    \A orderId \in DOMAIN orders :
        Live(orders[orderId])
            => (/\ orders[orderId].quantity.t = "number"
                /\ orders[orderId].quantity.v > 0
                /\ orders[orderId].quantity.v % Scale = 0
                /\ orders[orderId].price.t = "number"
                /\ orders[orderId].price.v >= 0
                /\ orders[orderId].assetType = Str("order"))

\* The fields of a product that its creation fixes.
BusinessFields == {"type", "quantity", "harvestDate", "origin", "assetType"}

\* C18: while a product stays live its type, quantity, harvestDate, origin
\* and assetType are those of its creation (a match does not reduce the
\* quantity), and every live product has assetType 'product'.
BusinessFieldsNeverChange ==
    [][\A productId \in DOMAIN products :
          /\ (Live(products[productId]) /\ Live(products'[productId]))
                => \A f \in BusinessFields :
                      products'[productId][f] = products[productId][f]
          /\ Live(products'[productId])
                => (/\ BusinessFields \subseteq DOMAIN products'[productId]
                    /\ products'[productId].assetType = Str("product")
                    /\ products'[productId].type.t = "string"
                    /\ products'[productId].quantity.t = "string")]_vars

\* A product matched with an order of a smaller quantity.
MatchedWithSmallerOrder ==
    /\ last.op = "matchOrder"
    /\ last.outcome = "return"
    /\ last.value # Mismatch
    /\ last.value # DeniedMatch(last.mspid)
    /\ Live(products[last.productId])
    /\ products[last.productId].status = AssignedToOrder
    /\ Live(orders[last.orderId])
    /\ QuantityAbove(products[last.productId].quantity, orders[last.orderId].quantity)

\* C19: an invocation sets an event exactly when it is a createProduct that
\* wrote a new product; it then calls putState and after it setEvent, once,
\* with the name 'addProductEvent' and a payload carrying the product's type.
EventIffProductCreated ==
    [][/\ (last'.event # NoEvent)
            <=> (/\ last'.op = "createProduct"
                 /\ last'.outcome = "return"
                 /\ ~ Live(products[last'.productId])
                 /\ Live(products'[last'.productId]))
       /\ (last'.event # NoEvent)
            => (/\ last'.calls = <<"getMSPID", "getState", "putState", "setEvent">>
                /\ last'.event.name = "addProductEvent"
                /\ last'.event.payload.ProductType = Str(last'.args.type)
                /\ products'[last'.productId].type = last'.event.payload.ProductType)]_vars

\* The event of a product of type 'rice' just created.
EventOfRiceCreated ==
    /\ last.op = "createProduct"
    /\ last.event # NoEvent
    /\ last.event.name = "addProductEvent"
    /\ last.event.payload.ProductType = Str("rice")
    /\ Live(products[last.productId])

\* status.startsWith('Assigned to') of a stored status.
IsAssigned(status) == startsWith(status.s, <<"Assigned to">>)

\* C17: a live product with an 'Assigned to ...' status has had status
\* 'Transferred to Wholesaler' since its creation, and one with status
\* 'Finalized for Market Sale' has had an 'Assigned to ...' status.
CustodyChainIsLinear ==
    \A productId \in DOMAIN had :
        Live(products[productId])
            => (/\ IsAssigned(products[productId].status)
                      => TransferredToWholesaler \in had[productId]
                /\ products[productId].status = FinalizedForMarketSale
                      => \E status \in had[productId] : IsAssigned(status))

\* C20: an order has at most one match assigning a product to it since its
\* creation, and a matchOrder naming an order that has had one throws
\* 'does not exist' for the order.
OrderMatchedAtMostOnce ==
    [][\A orderId \in DOMAIN matches :
          /\ matches'[orderId] <= 1
          /\ (/\ matches[orderId] = 1
              /\ last'.op = "matchOrder"
              /\ last'.orderId = orderId
              /\ Live(products[last'.productId])
              /\ variant = "A"
                    => /\ last'.mspid = "wholesalerMSP"
                       /\ products[last'.productId].status = TransferredToWholesaler)
                => (/\ last'.outcome = "throw"
                    /\ last'.value = OrderMissing(orderId))]_vars

=============================================================================
